---- MODULE Spec2Model ----
(***************************************************************************)
(* A model of nba-cli: the schedule fetcher (api.py), the calendar         *)
(* synthesizer and the export manager (calendar.py) and the team directory *)
(* (config.py).                                                            *)
(*                                                                         *)
(* Text that the code inspects (matchup text, abbreviations, conference    *)
(* and division names, dates) is a sequence of one-character strings, so   *)
(* that `in`, split, upper, lower, capitalize and strptime are computed.   *)
(* Display names that the code only copies are TLA+ strings.               *)
(***************************************************************************)
EXTENDS Integers, Sequences, FiniteSets, TLC

\* Optional values: Python's None is the empty tuple, a present value x is <<x>>.
None == <<>>
Some(x) == <<x>>

(***************************************************************************)
(* str methods                                                             *)
(***************************************************************************)
LowerAlpha == <<"a","b","c","d","e","f","g","h","i","j","k","l","m",
                "n","o","p","q","r","s","t","u","v","w","x","y","z">>
UpperAlpha == <<"A","B","C","D","E","F","G","H","I","J","K","L","M",
                "N","O","P","Q","R","S","T","U","V","W","X","Y","Z">>
Digits     == <<"0","1","2","3","4","5","6","7","8","9">>

IndexIn(c, alpha) ==
    IF \E i \in 1..Len(alpha) : alpha[i] = c
    THEN CHOOSE i \in 1..Len(alpha) : alpha[i] = c
    ELSE 0

UpperChar(c) == IF IndexIn(c, LowerAlpha) > 0 THEN UpperAlpha[IndexIn(c, LowerAlpha)] ELSE c
LowerChar(c) == IF IndexIn(c, UpperAlpha) > 0 THEN LowerAlpha[IndexIn(c, UpperAlpha)] ELSE c

\* str.upper(), str.lower(), str.capitalize()
Upper(s) == [i \in 1..Len(s) |-> UpperChar(s[i])]
Lower(s) == [i \in 1..Len(s) |-> LowerChar(s[i])]
Capitalize(s) == [i \in 1..Len(s) |-> IF i = 1 THEN UpperChar(s[i]) ELSE LowerChar(s[i])]

\* sep occurs in s at position i
OccursAt(s, sep, i) ==
    /\ i >= 1
    /\ i + Len(sep) - 1 <= Len(s)
    /\ \A k \in 1..Len(sep) : s[i + k - 1] = sep[k]

\* `sep in s`
Contains(s, sep) == \E i \in 1..Len(s) : OccursAt(s, sep, i)

\* s.split(sep): cut at every occurrence of sep, left to right, not overlapping
RECURSIVE Split(_, _)
Split(s, sep) ==
    IF ~Contains(s, sep)
    THEN <<s>>
    ELSE LET i == CHOOSE j \in 1..Len(s) :
                     /\ OccursAt(s, sep, j)
                     /\ \A k \in 1..(j - 1) : ~OccursAt(s, sep, k)
         IN <<SubSeq(s, 1, i - 1)>> \o Split(SubSeq(s, i + Len(sep), Len(s)), sep)

IsDigits(s) == Len(s) > 0 /\ \A i \in 1..Len(s) : IndexIn(s[i], Digits) > 0

RECURSIVE DigitsValue(_)
DigitsValue(s) ==
    IF Len(s) = 0 THEN 0
    ELSE 10 * DigitsValue(SubSeq(s, 1, Len(s) - 1)) + (IndexIn(s[Len(s)], Digits) - 1)

(***************************************************************************)
(* config.py: the team directory                                           *)
(***************************************************************************)
East == <<"E","a","s","t">>
West == <<"W","e","s","t">>
Atlantic  == <<"A","t","l","a","n","t","i","c">>
Central   == <<"C","e","n","t","r","a","l">>
Southeast == <<"S","o","u","t","h","e","a","s","t">>
Northwest == <<"N","o","r","t","h","w","e","s","t">>
Pacific   == <<"P","a","c","i","f","i","c">>
Southwest == <<"S","o","u","t","h","w","e","s","t">>

Team(a, n, c, d, i) == [abbrev |-> a, name |-> n, conference |-> c, division |-> d, id |-> i]

NBA_TEAMS == {
    Team(<<"B","O","S">>, "Boston Celtics", East, Atlantic, 1610612738),
    Team(<<"B","K","N">>, "Brooklyn Nets", East, Atlantic, 1610612751),
    Team(<<"N","Y","K">>, "New York Knicks", East, Atlantic, 1610612752),
    Team(<<"P","H","I">>, "Philadelphia 76ers", East, Atlantic, 1610612755),
    Team(<<"T","O","R">>, "Toronto Raptors", East, Atlantic, 1610612761),
    Team(<<"C","H","I">>, "Chicago Bulls", East, Central, 1610612741),
    Team(<<"C","L","E">>, "Cleveland Cavaliers", East, Central, 1610612739),
    Team(<<"D","E","T">>, "Detroit Pistons", East, Central, 1610612765),
    Team(<<"I","N","D">>, "Indiana Pacers", East, Central, 1610612754),
    Team(<<"M","I","L">>, "Milwaukee Bucks", East, Central, 1610612749),
    Team(<<"A","T","L">>, "Atlanta Hawks", East, Southeast, 1610612737),
    Team(<<"C","H","A">>, "Charlotte Hornets", East, Southeast, 1610612766),
    Team(<<"M","I","A">>, "Miami Heat", East, Southeast, 1610612748),
    Team(<<"O","R","L">>, "Orlando Magic", East, Southeast, 1610612753),
    Team(<<"W","A","S">>, "Washington Wizards", East, Southeast, 1610612764),
    Team(<<"D","E","N">>, "Denver Nuggets", West, Northwest, 1610612743),
    Team(<<"M","I","N">>, "Minnesota Timberwolves", West, Northwest, 1610612750),
    Team(<<"O","K","C">>, "Oklahoma City Thunder", West, Northwest, 1610612760),
    Team(<<"P","O","R">>, "Portland Trail Blazers", West, Northwest, 1610612757),
    Team(<<"U","T","A">>, "Utah Jazz", West, Northwest, 1610612762),
    Team(<<"G","S","W">>, "Golden State Warriors", West, Pacific, 1610612744),
    Team(<<"L","A","C">>, "Los Angeles Clippers", West, Pacific, 1610612746),
    Team(<<"L","A","L">>, "Los Angeles Lakers", West, Pacific, 1610612747),
    Team(<<"P","H","X">>, "Phoenix Suns", West, Pacific, 1610612756),
    Team(<<"S","A","C">>, "Sacramento Kings", West, Pacific, 1610612758),
    Team(<<"D","A","L">>, "Dallas Mavericks", West, Southwest, 1610612742),
    Team(<<"H","O","U">>, "Houston Rockets", West, Southwest, 1610612745),
    Team(<<"M","E","M">>, "Memphis Grizzlies", West, Southwest, 1610612763),
    Team(<<"N","O","P">>, "New Orleans Pelicans", West, Southwest, 1610612740),
    Team(<<"S","A","S">>, "San Antonio Spurs", West, Southwest, 1610612759) }

\* NBA_TEAMS.get(abbrev.upper())
get_team_by_abbrev(abbrev) ==
    LET key == Upper(abbrev) IN
    IF \E t \in NBA_TEAMS : t.abbrev = key
    THEN Some(CHOOSE t \in NBA_TEAMS : t.abbrev = key)
    ELSE None

\* get_teams_by_conference(conference), get_teams_by_division(division)
get_teams_by_conference(conference) ==
    LET conf == Capitalize(conference) IN { t \in NBA_TEAMS : t.conference = conf }

get_teams_by_division(division) ==
    LET div == Capitalize(division) IN { t \in NBA_TEAMS : t.division = div }

(***************************************************************************)
(* datetime                                                                *)
(***************************************************************************)
IsLeap(y) == (y % 4 = 0 /\ y % 100 # 0) \/ y % 400 = 0

DaysInMonth(y, m) ==
    IF m = 2 THEN (IF IsLeap(y) THEN 29 ELSE 28)
    ELSE IF m \in {4, 6, 9, 11} THEN 30 ELSE 31

DateTime(y, m, d, hh, mm) == [year |-> y, month |-> m, day |-> d, hour |-> hh, minute |-> mm]

\* datetime.strptime(s, "%Y-%m-%d"); None stands for the ValueError
Strptime(s) ==
    LET parts == Split(s, <<"-">>) IN
    IF /\ Len(parts) = 3
       /\ IsDigits(parts[1]) /\ Len(parts[1]) = 4
       /\ IsDigits(parts[2]) /\ Len(parts[2]) <= 2
       /\ IsDigits(parts[3]) /\ Len(parts[3]) <= 2
    THEN LET y == DigitsValue(parts[1])
             m == DigitsValue(parts[2])
             d == DigitsValue(parts[3])
         IN IF y >= 1 /\ m \in 1..12 /\ d >= 1 /\ d <= DaysInMonth(y, m)
            THEN Some(DateTime(y, m, d, 0, 0))
            ELSE None
    ELSE None

\* the sort key order of datetime values
DateLess(a, b) ==
    LET ka == <<a.year, a.month, a.day, a.hour, a.minute>>
        kb == <<b.year, b.month, b.day, b.hour, b.minute>>
    IN \E i \in 1..5 : ka[i] < kb[i] /\ \A j \in 1..(i - 1) : ka[j] = kb[j]

DateLeq(a, b) == ~DateLess(b, a)

\* dt + timedelta(hours=h), for 0 <= h < 24
AddHours(dt, h) ==
    IF dt.hour + h < 24 THEN [dt EXCEPT !.hour = dt.hour + h]
    ELSE IF dt.day < DaysInMonth(dt.year, dt.month)
         THEN [dt EXCEPT !.hour = dt.hour + h - 24, !.day = dt.day + 1]
    ELSE IF dt.month < 12
         THEN [dt EXCEPT !.hour = dt.hour + h - 24, !.day = 1, !.month = dt.month + 1]
    ELSE [dt EXCEPT !.hour = dt.hour + h - 24, !.day = 1, !.month = 1, !.year = dt.year + 1]

(***************************************************************************)
(* api.py: Game and the row parser                                         *)
(***************************************************************************)
VS == <<" ","v","s","."," ">>
AT == <<" ","@"," ">>

DEFAULT_HOUR   == 19
DEFAULT_MINUTE == 30

\* mutant of MatchupSides: the sides of "X @ Y" taken in text order
MatchupSides_AtInTextOrder(matchup) ==
    IF Contains(matchup, VS)
    THEN LET parts == Split(matchup, VS) IN Some([home |-> parts[1], away |-> parts[2]])
    ELSE IF Contains(matchup, AT)
    THEN LET parts == Split(matchup, AT) IN Some([home |-> parts[1], away |-> parts[2]])
    ELSE None

\* the home/away split of the matchup text (lines 179-192); None: unknown format
MatchupSides(matchup) ==
    IF Contains(matchup, VS)
    THEN LET parts == Split(matchup, VS) IN Some([home |-> parts[1], away |-> parts[2]])
    ELSE IF Contains(matchup, AT)
    THEN LET parts == Split(matchup, AT) IN Some([home |-> parts[2], away |-> parts[1]])
    ELSE None

\* wl is not None and wl != ""
RowCompleted(row) == row.WL # None /\ row.WL # Some(<<>>)

\* mutant of RowScores: the points of the row are stored for both teams
RowScores_Both(row, completed, home_abbrev) ==
    IF completed /\ row.PTS # None
    THEN [home |-> row.PTS, away |-> row.PTS]
    ELSE [home |-> None, away |-> None]

\* the scores of a row (lines 212-221): only the row's own team's points are stored
RowScores(row, completed, home_abbrev) ==
    IF completed /\ row.PTS # None
    THEN IF row.TEAM_ABBREVIATION = home_abbrev
         THEN [home |-> row.PTS, away |-> None]
         ELSE [home |-> None, away |-> row.PTS]
    ELSE [home |-> None, away |-> None]

\* row.get("SEASON_TYPE", "Regular Season") if "SEASON_TYPE" in row else "Regular Season"
RowSeasonType(row) == IF row.SEASON_TYPE # None THEN row.SEASON_TYPE[1] ELSE "Regular Season"

\* mutant of DefaultGameTime: the parsed date keeps its time of day
DefaultGameTime_Kept(dt) == dt

\* line 206: game_date.replace(hour=19, minute=30)
DefaultGameTime(dt) == [dt EXCEPT !.hour = DEFAULT_HOUR, !.minute = DEFAULT_MINUTE]

\* NBAClient._parse_game_row(row, season): Some(Game), or None
_parse_game_row(row, season) ==
    LET sides == MatchupSides(row.MATCHUP) IN
    IF sides = None THEN None
    ELSE
    LET home_abbrev == sides[1].home
        away_abbrev == sides[1].away
        home_info == get_team_by_abbrev(home_abbrev)
        away_info == get_team_by_abbrev(away_abbrev)
    IN
    IF home_info = None \/ away_info = None THEN None
    ELSE
    LET parsed_date == Strptime(row.GAME_DATE) IN
    IF parsed_date = None THEN None
    ELSE
    LET game_date == DefaultGameTime(parsed_date[1])
        completed == RowCompleted(row)
        scores    == RowScores(row, completed, home_abbrev)
    IN
    Some([ game_id        |-> row.GAME_ID,
           game_date      |-> game_date,
           home_team_id   |-> home_info[1].id,
           home_team      |-> home_abbrev,
           home_team_name |-> home_info[1].name,
           away_team_id   |-> away_info[1].id,
           away_team      |-> away_abbrev,
           away_team_name |-> away_info[1].name,
           home_score     |-> scores.home,
           away_score     |-> scores.away,
           arena          |-> None,
           completed      |-> completed,
           season         |-> season,
           season_type    |-> RowSeasonType(row) ])

(***************************************************************************)
(* Inputs                                                                  *)
(***************************************************************************)
BOS == <<"B","O","S">>
NYK == <<"N","Y","K">>
LAL == <<"L","A","L">>
XYZ == <<"X","Y","Z">>

Season2024 == <<"2","0","2","4","-","2","5">>
Season2023 == <<"2","0","2","3","-","2","4">>
GameId1 == <<"0","0","1">>
GameId2 == <<"0","0","2">>
GameId3 == <<"0","0","3">>

Date1022 == <<"2","0","2","4","-","1","0","-","2","2">>
Date1225 == <<"2","0","2","4","-","1","2","-","2","5">>

\* matchup texts: both separators in both directions, no separator, an unknown
\* abbreviation, a lower-case abbreviation, both separators at once
MatchupPool ==
    { BOS \o VS \o NYK, NYK \o AT \o BOS, BOS \o AT \o NYK, NYK \o VS \o BOS,
      BOS \o <<" ","v","s"," ">> \o NYK, BOS \o AT \o XYZ, XYZ \o VS \o NYK,
      <<"b","o","s">> \o AT \o LAL, BOS \o VS \o NYK \o AT \o LAL }

\* date texts: two dates, an unpadded date, a day the month does not have,
\* another format, the empty text
DatePool ==
    { Date1022, Date1225, <<"2","0","2","5","-","1","-","5">>,
      <<"2","0","2","5","-","0","2","-","3","0">>,
      <<"1","2","/","2","5","/","2","0","2","4">>, << >> }

RowPool ==
    [ GAME_ID : {GameId1, GameId2},
      MATCHUP : MatchupPool,
      TEAM_ABBREVIATION : {BOS, NYK},
      TEAM_ID : {1610612738},
      GAME_DATE : DatePool,
      WL : {None, Some(<< >>), Some(<<"W">>), Some(<<"L">>)},
      PTS : {None, Some(110), Some(102), Some(0)},
      SEASON_TYPE : {None, Some("Playoffs")} ]

\* a Game of the given id, season, completion and scores; `other` gives the rest
GameOf(id, season, completed, scored, other) ==
    [ game_id        |-> id,
      game_date      |-> other.date,
      home_team_id   |-> get_team_by_abbrev(other.home)[1].id,
      home_team      |-> other.home,
      home_team_name |-> get_team_by_abbrev(other.home)[1].name,
      away_team_id   |-> get_team_by_abbrev(other.away)[1].id,
      away_team      |-> other.away,
      away_team_name |-> get_team_by_abbrev(other.away)[1].name,
      home_score     |-> IF scored THEN Some(110) ELSE None,
      away_score     |-> IF scored THEN Some(102) ELSE None,
      arena          |-> other.arena,
      completed      |-> completed,
      season         |-> season,
      season_type    |-> other.season_type ]

\* the rows an upstream query may return in the fetch: a completed home game
\* ("X vs. Y") and the same row with a matchup that has no separator; an
\* upcoming away game ("X @ Y") on an earlier date, with a SEASON_TYPE column
\* that says "Play-In", and the same row with an abbreviation the directory
\* does not know
FetchRowPool ==
    LET Row(id, matchup, team, date, wl, pts, st) ==
            [ GAME_ID |-> id, MATCHUP |-> matchup, TEAM_ABBREVIATION |-> team,
              TEAM_ID |-> get_team_by_abbrev(team)[1].id, GAME_DATE |-> date,
              WL |-> wl, PTS |-> pts, SEASON_TYPE |-> st ]
    IN { Row(GameId1, BOS \o VS \o NYK, BOS, Date1225, Some(<<"W">>), Some(110), None),
         Row(GameId1, BOS \o <<" ","v","s"," ">> \o NYK, BOS, Date1225, Some(<<"W">>), Some(110), None),
         Row(GameId2, LAL \o AT \o BOS, LAL, Date1022, None, None, Some("Play-In")),
         Row(GameId2, LAL \o AT \o XYZ, LAL, Date1022, None, None, Some("Play-In")) }

\* the team filter: None, or a list of at most MaxTeams team ids (of BOS, NYK,
\* LAL, GSW, in this order)
MaxTeams == 2
TeamIdOrder == <<1610612738, 1610612752, 1610612747, 1610612744>>

TeamIdLists == { SubSeq(TeamIdOrder, 1, n) : n \in 0..MaxTeams }

(***************************************************************************)
(* api.py: get_season_games and get_full_season_schedule, the pure parts   *)
(***************************************************************************)
\* list.sort(key=lambda g: g.game_date): a stable sort
RECURSIVE InsertByDate(_, _)
InsertByDate(sorted, g) ==
    IF Len(sorted) = 0 THEN <<g>>
    ELSE IF DateLess(g.game_date, sorted[Len(sorted)].game_date)
         THEN InsertByDate(SubSeq(sorted, 1, Len(sorted) - 1), g) \o <<sorted[Len(sorted)]>>
         ELSE sorted \o <<g>>

\* mutant of SortByDate: the list is left in the order it was built
SortByDate_Unsorted(gs) == gs

RECURSIVE SortByDate(_)
SortByDate(gs) ==
    IF Len(gs) = 0 THEN << >>
    ELSE InsertByDate(SortByDate(SubSeq(gs, 1, Len(gs) - 1)), gs[Len(gs)])

\* mutant of SkipSeenRow: the seen ids are not consulted
SkipSeenRow_Never(game_id, seen) == FALSE

\* line 126 (and 154): `if game_id in seen_game_ids: continue`
SkipSeenRow(game_id, seen) == game_id \in seen

\* self._parse_game_row(row, season) at lines 130 and 158; the results for the
\* rows of FetchRowPool are computed once
ParsedFetchRows == [r \in FetchRowPool |-> _parse_game_row(r, Season2024)]

parse_row(r, season) ==
    IF season = Season2024 /\ r \in FetchRowPool THEN ParsedFetchRows[r]
    ELSE _parse_game_row(r, season)

\* mutant of ProcessRow: the id is marked as seen only when the row gave a Game
ProcessRow_SeenWhenParsed(acc, r, season) ==
    IF SkipSeenRow(r.GAME_ID, acc.seen_game_ids) THEN acc
    ELSE LET game == parse_row(r, season) IN
         IF game # None
         THEN [ seen_game_ids |-> acc.seen_game_ids \cup {r.GAME_ID},
                games         |-> Append(acc.games, game[1]) ]
         ELSE acc

\* lines 125-132 (and 153-160): one row of the data frame
\* acc = [games, seen_game_ids]
ProcessRow(acc, r, season) ==
    IF SkipSeenRow(r.GAME_ID, acc.seen_game_ids) THEN acc
    ELSE LET game == parse_row(r, season) IN
         [ seen_game_ids |-> acc.seen_game_ids \cup {r.GAME_ID},
           games         |-> IF game # None THEN Append(acc.games, game[1]) ELSE acc.games ]

\* mutant of SeasonTypes: "Pre Season" is appended instead of inserted in front
SeasonTypes_PreSeasonLast(include_preseason, include_playoffs) ==
    <<"Regular Season">>
    \o (IF include_playoffs THEN <<"Playoffs">> ELSE << >>)
    \o (IF include_preseason THEN <<"Pre Season">> ELSE << >>)

\* lines 262-266
SeasonTypes(include_preseason, include_playoffs) ==
    (IF include_preseason THEN <<"Pre Season">> ELSE << >>)
    \o <<"Regular Season">>
    \o (IF include_playoffs THEN <<"Playoffs">> ELSE << >>)

\* line 272: `if game.game_id not in seen_ids`
MergeKeeps(game, seen) == game.game_id \notin seen

\* mutant of MergeGames: the games keep the season_type they were parsed with
RECURSIVE MergeGames_KeepsParsed(_, _, _)
MergeGames_KeepsParsed(acc, gs, season_type) ==
    IF Len(gs) = 0 THEN acc
    ELSE LET game == gs[1]
             nxt  == IF MergeKeeps(game, acc.seen_ids)
                     THEN [ seen_ids  |-> acc.seen_ids \cup {game.game_id},
                            all_games |-> Append(acc.all_games, game) ]
                     ELSE acc
         IN MergeGames_KeepsParsed(nxt, Tail(gs), season_type)

\* lines 271-275: the games of one season type merged into all_games
\* acc = [all_games, seen_ids]
RECURSIVE MergeGames(_, _, _)
MergeGames(acc, gs, season_type) ==
    IF Len(gs) = 0 THEN acc
    ELSE LET game == gs[1]
             nxt  == IF MergeKeeps(game, acc.seen_ids)
                     THEN [ seen_ids  |-> acc.seen_ids \cup {game.game_id},
                            all_games |-> Append(acc.all_games,
                                                 [game EXCEPT !.season_type = season_type]) ]
                     ELSE acc
         IN MergeGames(nxt, Tail(gs), season_type)

\* line 112: `if team_ids:` (None and the empty list both select the bulk query)
PerTeam(team_ids) == team_ids # None /\ Len(team_ids[1]) > 0

(***************************************************************************)
(* calendar.py: create_game_event                                          *)
(***************************************************************************)
GAME_HOURS == 3

\* str(n) for n >= 0
RECURSIVE IntStr(_)
IntStr(n) == IF n < 10 THEN <<Digits[n + 1]>> ELSE IntStr(n \div 10) \o <<Digits[(n % 10) + 1]>>

\* the characters that occur in a season or a game id, in code order
Ascii == <<"-","0","1","2","3","4","5","6","7","8","9","a","b","c","n">>
\* hashlib.md5(bytes).hexdigest(): a digest of the bytes and of nothing else
\* (a polynomial digest stands for MD5)
RECURSIVE Md5Hex(_)
Md5Hex(bytes) ==
    IF Len(bytes) = 0 THEN 7
    ELSE (Md5Hex(SubSeq(bytes, 1, Len(bytes) - 1)) * 131 + IndexIn(bytes[Len(bytes)], Ascii)) % 65521

\* mutant of UidBase: the identifier also depends on the completion of the game
UidBase_WithStatus(game) ==
    <<"n","b","a","-">> \o game.season \o <<"-">> \o game.game_id
    \o (IF game.completed THEN <<"c">> ELSE <<"n">>)

\* uid_base = f"nba-{game.season}-{game.game_id}"
UidBase(game) == <<"n","b","a","-">> \o game.season \o <<"-">> \o game.game_id

\* f"{uid}@nba-cli"
EventUid(game) == [digest |-> Md5Hex(UidBase(game)), domain |-> "nba-cli"]

HasBothScores(game) == game.home_score # None /\ game.away_score # None

\* Game.score_display (api.py, lines 55-60): the empty text unless the game is
\* completed and has both scores
score_display(game) ==
    IF game.completed /\ game.home_score # None /\ game.away_score # None
    THEN game.away_team \o <<" ">> \o IntStr(game.away_score[1]) \o <<" ","-"," ">>
         \o IntStr(game.home_score[1]) \o <<" ">> \o game.home_team
    ELSE << >>

\* mutant of EventSummary: the completion of the game is not consulted
EventSummary_ScoredWhenever(game) ==
    IF HasBothScores(game)
    THEN game.away_team \o <<" ">> \o IntStr(game.away_score[1]) \o AT
         \o game.home_team \o <<" ">> \o IntStr(game.home_score[1])
    ELSE game.away_team \o AT \o game.home_team

\* lines 35-40
EventSummary(game) ==
    IF game.completed /\ HasBothScores(game)
    THEN game.away_team \o <<" ">> \o IntStr(game.away_score[1]) \o AT
         \o game.home_team \o <<" ">> \o IntStr(game.home_score[1])
    ELSE game.away_team \o AT \o game.home_team

\* lines 50-63: the lines of the description, in order
EventDescription(game) ==
    << [line |-> "Matchup", away |-> game.away_team_name, home |-> game.home_team_name],
       [line |-> "Season", season |-> game.season] >>
    \o (IF game.season_type # "Regular Season"
        THEN << [line |-> "Type", season_type |-> game.season_type] >> ELSE << >>)
    \o (IF game.completed /\ HasBothScores(game)
        THEN << [line |-> "Final",
                 text |-> game.away_team \o <<" ">> \o IntStr(game.away_score[1]) \o <<" ","-"," ">>
                          \o IntStr(game.home_score[1]) \o <<" ">> \o game.home_team] >>
        ELSE << >>)

\* lines 65-69
EventCategories(game) ==
    <<"NBA", "Basketball">> \o (IF game.season_type = "Playoffs" THEN <<"Playoffs">> ELSE << >>)

\* mutant of WantsAlarm: the completion of the game is not consulted
WantsAlarm_IgnoresCompleted(game, reminder_minutes) == reminder_minutes > 0

\* lines 77-83: the guard of the reminder
WantsAlarm(game, reminder_minutes) == ~game.completed /\ reminder_minutes > 0

\* lines 79-83: the alarms of the event; the trigger is a timedelta, in minutes
EventAlarms(game, reminder_minutes) ==
    IF WantsAlarm(game, reminder_minutes)
    THEN << [action |-> "DISPLAY",
             description |-> [away |-> game.away_team, home |-> game.home_team],
             trigger |-> 0 - reminder_minutes] >>
    ELSE << >>

\* create_game_event(game, reminder_minutes), called at time now
create_game_event(game, reminder_minutes, now) ==
    [ uid         |-> EventUid(game),
      summary     |-> EventSummary(game),
      dtstart     |-> game.game_date,
      dtend       |-> AddHours(game.game_date, GAME_HOURS),
      location    |-> game.arena,
      description |-> EventDescription(game),
      categories  |-> EventCategories(game),
      status      |-> IF game.completed THEN "CONFIRMED" ELSE "TENTATIVE",
      alarms      |-> EventAlarms(game, reminder_minutes),
      dtstamp     |-> now,
      created     |-> now ]

(***************************************************************************)
(* calendar.py: the calendars                                              *)
(***************************************************************************)
\* mutant of involves_team: the abbreviation is compared as given
involves_team_AsGiven(game, team_abbrev) ==
    game.home_team = team_abbrev \/ game.away_team = team_abbrev

\* Game.involves_team(team_abbrev)
involves_team(game, team_abbrev) ==
    LET abbrev == Upper(team_abbrev) IN game.home_team = abbrev \/ game.away_team = abbrev

RECURSIVE MapEvents(_, _, _)
MapEvents(gs, reminder_minutes, now) ==
    IF Len(gs) = 0 THEN << >>
    ELSE <<create_game_event(gs[1], reminder_minutes, now)>> \o MapEvents(Tail(gs), reminder_minutes, now)

RECURSIVE FilterGames(_, _)
FilterGames(gs, team_abbrev) ==
    IF Len(gs) = 0 THEN << >>
    ELSE (IF involves_team(gs[1], team_abbrev) THEN <<gs[1]>> ELSE << >>)
         \o FilterGames(Tail(gs), team_abbrev)

\* generate_team_calendar(games, team_abbrev, reminder_minutes=...):
\* Some(calendar), or None for the ValueError of an unknown team
generate_team_calendar(gs, team_abbrev, reminder_minutes, now) ==
    LET team_info == get_team_by_abbrev(team_abbrev) IN
    IF team_info = None THEN None
    ELSE Some([ calname |-> [kind |-> "team", of |-> team_info[1].name],
                events  |-> MapEvents(FilterGames(gs, team_abbrev), reminder_minutes, now) ])

\* mutant of SkipSeenGame: the seen ids are not consulted
SkipSeenGame_Never(game, seen) == FALSE

\* lines 163 and 210 (and 299): `if game.game_id in seen_ids: continue`
SkipSeenGame(game, seen) == game.game_id \in seen

\* mutant of DistinctGames: only the home team is looked up in `members`
RECURSIVE DistinctGames_HomeOnly(_, _, _)
DistinctGames_HomeOnly(gs, members, seen) ==
    IF Len(gs) = 0 THEN << >>
    ELSE LET game == gs[1] IN
         IF SkipSeenGame(game, seen) THEN DistinctGames_HomeOnly(Tail(gs), members, seen)
         ELSE IF game.home_team \in members
              THEN <<game>> \o DistinctGames_HomeOnly(Tail(gs), members, seen \cup {game.game_id})
              ELSE DistinctGames_HomeOnly(Tail(gs), members, seen)

\* lines 160-167 and 207-214: the games with a side in `members`, each game id once
RECURSIVE DistinctGames(_, _, _)
DistinctGames(gs, members, seen) ==
    IF Len(gs) = 0 THEN << >>
    ELSE LET game == gs[1] IN
         IF SkipSeenGame(game, seen) THEN DistinctGames(Tail(gs), members, seen)
         ELSE IF game.home_team \in members \/ game.away_team \in members
              THEN <<game>> \o DistinctGames(Tail(gs), members, seen \cup {game.game_id})
              ELSE DistinctGames(Tail(gs), members, seen)

\* generate_conference_calendar(games, conference, reminder_minutes=...)
generate_conference_calendar(gs, conference, reminder_minutes, now) ==
    LET conf       == Capitalize(conference)
        conf_teams == { t.abbrev : t \in { u \in NBA_TEAMS : u.conference = conf } }
    IN Some([ calname |-> [kind |-> "conference", of |-> conf],
              events  |-> MapEvents(DistinctGames(gs, conf_teams, {}), reminder_minutes, now) ])

\* generate_division_calendar(games, division, reminder_minutes=...)
generate_division_calendar(gs, division, reminder_minutes, now) ==
    LET div       == Capitalize(division)
        div_teams == { t.abbrev : t \in { u \in NBA_TEAMS : u.division = div } }
    IN Some([ calname |-> [kind |-> "division", of |-> div],
              events  |-> MapEvents(DistinctGames(gs, div_teams, {}), reminder_minutes, now) ])

\* mutant of CombinedGames: every game of the input gets its event
CombinedGames_All(gs, seen) == gs

\* lines 297-303: every game id once
RECURSIVE CombinedGames(_, _)
CombinedGames(gs, seen) ==
    IF Len(gs) = 0 THEN << >>
    ELSE IF SkipSeenGame(gs[1], seen) THEN CombinedGames(Tail(gs), seen)
         ELSE <<gs[1]>> \o CombinedGames(Tail(gs), seen \cup {gs[1].game_id})

\* lines 289-303: the combined calendar
generate_combined_calendar(gs, reminder_minutes, now) ==
    Some([ calname |-> [kind |-> "combined", of |-> "NBA Schedule"],
           events  |-> MapEvents(CombinedGames(gs, {}), reminder_minutes, now) ])

\* self.output_dir / f"nba_{name.lower()}.ics"
IcsPath(name) == <<"n","b","a","_">> \o Lower(name) \o <<".","i","c","s">>
CombinedPath  == IcsPath(<<"s","c","h","e","d","u","l","e">>)

\* export_calendar(cal, filepath) when the file system and the serializer
\* answer `outcome`:
\*   "open_failed"       mkdir or open raises: the directory is as it was
\*   "serialize_failed"  open created or truncated the file, cal.to_ical() raises
\*   "write_failed"      f.write raises after part of the bytes
\*   "ok"                the bytes are written
IoOutcomes == {"open_failed", "serialize_failed", "write_failed", "ok"}

export_calendar(fs, cal, filepath, outcome) ==
    IF outcome = "open_failed" THEN fs
    ELSE IF outcome = "serialize_failed" THEN (filepath :> [bytes |-> "empty"]) @@ fs
    ELSE IF outcome = "write_failed" THEN (filepath :> [bytes |-> "partial"]) @@ fs
    ELSE (filepath :> [bytes |-> "complete", cal |-> cal]) @@ fs

\* mutant of Generated: the path is appended before export_calendar is called
Generated_BeforeExport(prev, filepath, built, outcome) ==
    IF built THEN Append(prev, filepath) ELSE prev

\* lines 261-262: the path is appended after export_calendar returned
Generated(prev, filepath, built, outcome) ==
    IF built /\ outcome = "ok" THEN Append(prev, filepath) ELSE prev

(***************************************************************************)
(* State                                                                   *)
(***************************************************************************)
VARIABLES
    pc,       \* where the modelled call stands
    row,      \* _parse_game_row: the row given
    parsed,   \* _parse_game_row: what it returned
    ev_args,  \* create_game_event: the two calls' arguments
    events,   \* create_game_event: the two calls' results
    f_args,         \* get_full_season_schedule: season, team_ids, include_preseason, include_playoffs
    st_idx,         \* get_full_season_schedule: the index of season_type in season_types
    all_games,      \* get_full_season_schedule: all_games
    seen_ids,       \* get_full_season_schedule: seen_ids
    team_idx,       \* get_season_games: the index of team_id in team_ids
    games,          \* get_season_games: games
    seen_game_ids,  \* get_season_games: seen_game_ids
    first_row,      \* history: per game id, the first row of this get_season_games call and its query
    shared,         \* history: a game of `games` was returned again by another team's query
    row_ids,        \* history: ok, the ids of the returned rows that parse; bad, of those that do not
    some_failed,    \* history: an upstream query of this fetch raised
    returned,       \* history: how the last get_season_games call ended (None: none ended yet)
    calls,          \* history: the upstream calls issued so far, their season type and team
    call_failed,    \* history: the last upstream call raised
    all_failed,     \* history: every upstream call so far raised
    delayed,        \* history: _delay() ran since the last upstream call
    first_type,     \* history: per game id, the first season type whose get_season_games result had it
    x_args,         \* generate_all: games, tracked_teams, tracked_conferences, tracked_divisions, reminder_minutes
    x_idx,          \* generate_all: the index of the entity at hand, in the order of the four blocks
    generated,      \* generate_all: generated
    files,          \* the output directory: path -> file
    attempts        \* history: per entity handled, whether its calendar was built and how its export ended

vars == <<pc, row, parsed, ev_args, events, f_args, st_idx, all_games, seen_ids,
          team_idx, games, seen_game_ids, first_row, shared, row_ids, some_failed,
          returned, calls, call_failed, all_failed, delayed, first_type,
          x_args, x_idx, generated, files, attempts>>

parseVars == <<row, parsed>>
eventVars == <<ev_args, events>>
fetchVars == <<f_args, st_idx, all_games, seen_ids, team_idx, games, seen_game_ids,
               first_row, shared, row_ids, some_failed,
               returned, calls, call_failed, all_failed, delayed, first_type>>

ParseIdle == row = None /\ parsed = None
EventIdle == ev_args = << >> /\ events = << >>
exportVars == <<x_args, x_idx, generated, files, attempts>>

ExportIdle ==
    x_args = None /\ x_idx = 0 /\ generated = << >> /\ files = << >> /\ attempts = << >>

FetchIdle ==
    /\ f_args = None /\ st_idx = 0 /\ all_games = << >> /\ seen_ids = {}
    /\ team_idx = 0 /\ games = << >> /\ seen_game_ids = {}
    /\ first_row = << >> /\ shared = FALSE /\ row_ids = [ok |-> {}, bad |-> {}]
    /\ some_failed = FALSE
    /\ returned = None /\ calls = << >>
    /\ call_failed = FALSE /\ all_failed = TRUE /\ delayed = FALSE
    /\ first_type = << >>

(***************************************************************************)
(* The row parser applied to one row                                       *)
(***************************************************************************)
InitParse ==
    /\ pc = "parse"
    /\ row \in {Some(r) : r \in RowPool}
    /\ parsed = None
    /\ EventIdle /\ FetchIdle /\ ExportIdle

ParseRow ==
    /\ pc = "parse"
    /\ parsed' = _parse_game_row(row[1], Season2024)
    /\ pc' = "parsed"
    /\ UNCHANGED <<row, eventVars, fetchVars, exportVars>>

SpecParse == InitParse /\ [][ParseRow]_vars

(***************************************************************************)
(* create_game_event applied to two games                                  *)
(***************************************************************************)
\* the games given to create_game_event: with both scores or none, completed or
\* not; and completed with the home score alone, as _parse_game_row builds a
\* completed game from the row of the home team
EventGamePool ==
    LET both_or_none ==
            { GameOf(id, season, completed, scored, other) :
                id \in {GameId1, GameId2}, season \in {Season2024, Season2023},
                completed \in BOOLEAN, scored \in BOOLEAN,
                other \in { [date |-> DateTime(2024, 10, 22, 19, 30), home |-> BOS, away |-> NYK,
                             arena |-> None, season_type |-> "Regular Season"],
                            [date |-> DateTime(2024, 12, 31, 22, 0), home |-> LAL, away |-> BOS,
                             arena |-> Some("Crypto.com Arena"), season_type |-> "Playoffs"],
                            [date |-> DateTime(2024, 10, 4, 19, 30), home |-> NYK, away |-> LAL,
                             arena |-> None, season_type |-> "Pre Season"] } }
    IN both_or_none
       \cup { [g EXCEPT !.away_score = None] :
                g \in { b \in both_or_none : b.completed /\ b.home_score # None } }

ReminderPool == {0 - 10, 0, 60}

InitEvent ==
    /\ pc = "event"
    /\ ev_args \in [1..2 -> [game : EventGamePool, reminder_minutes : ReminderPool, now : {1, 2}]]
    /\ ev_args[1].now = 1
    /\ events = << >>
    /\ ParseIdle /\ FetchIdle /\ ExportIdle

CreateEvents ==
    /\ pc = "event"
    /\ events' = [i \in 1..2 |->
                    create_game_event(ev_args[i].game, ev_args[i].reminder_minutes, ev_args[i].now)]
    /\ pc' = "created"
    /\ UNCHANGED <<ev_args, parseVars, fetchVars, exportVars>>

SpecEvent == InitEvent /\ [][CreateEvents]_vars

(***************************************************************************)
(* get_full_season_schedule: one upstream query at a time, one row at a    *)
(* time                                                                    *)
(***************************************************************************)
season_types == SeasonTypes(f_args[1].include_preseason, f_args[1].include_playoffs)
team_ids     == f_args[1].team_ids

InitFetch ==
    /\ pc = "query"
    /\ f_args \in { Some(a) : a \in [ season : {Season2024},
                                      team_ids : {None} \cup {Some(l) : l \in TeamIdLists},
                                      include_preseason : BOOLEAN,
                                      include_playoffs : BOOLEAN ] }
    /\ st_idx = 1 /\ all_games = << >> /\ seen_ids = {}
    /\ team_idx = 1 /\ games = << >> /\ seen_game_ids = {}
    /\ first_row = << >> /\ shared = FALSE /\ row_ids = [ok |-> {}, bad |-> {}]
    /\ some_failed = FALSE
    /\ returned = None /\ calls = << >>
    /\ call_failed = FALSE /\ all_failed = TRUE /\ delayed = FALSE
    /\ first_type = << >>
    /\ ParseIdle /\ EventIdle /\ ExportIdle

\* lines 268-280: get_season_games ended with `result` (its list, or an
\* exception); get_full_season_schedule merges the list (an exception is logged
\* at line 277) and goes on to the next season type, or sorts and returns
LeaveSeasonType(result) ==
    LET acc    == [all_games |-> all_games, seen_ids |-> seen_ids]
        merged == IF result.raised THEN acc
                  ELSE MergeGames(acc, result.games, season_types[st_idx])
        fresh  == { result.games[i].game_id : i \in 1..Len(result.games) } \ DOMAIN first_type
    IN /\ returned' = Some(result)
       /\ first_type' = [id \in fresh |-> season_types[st_idx]] @@ first_type
       /\ seen_ids' = merged.seen_ids
       /\ games' = << >>
       /\ seen_game_ids' = {}
       /\ first_row' = << >>
       /\ team_idx' = 1
       /\ IF st_idx < Len(season_types)
          THEN /\ all_games' = merged.all_games
               /\ st_idx' = st_idx + 1
               /\ pc' = "query"
          ELSE /\ all_games' = SortByDate(merged.all_games)
               /\ st_idx' = st_idx
               /\ pc' = "fetched"

\* lines 165-169: get_season_games sorts and returns
ReturnSeasonGames == LeaveSeasonType([raised |-> FALSE, games |-> SortByDate(games)])

\* line 114: the per-team loop goes on to the next team, or ends
NextTeam ==
    IF PerTeam(team_ids) /\ team_idx < Len(team_ids[1])
    THEN /\ team_idx' = team_idx + 1
         /\ pc' = "query"
         /\ UNCHANGED <<st_idx, all_games, seen_ids, games, seen_game_ids, first_row, returned,
                      first_type>>
    ELSE ReturnSeasonGames

\* mutant of OnQueryError: the exception leaves get_season_games and reaches the
\* handler of line 276, so the season type contributes no game
OnQueryError_Propagates == LeaveSeasonType([raised |-> TRUE, games |-> << >>])

\* lines 136-139: the handler of a failed query in the per-team loop logs; the
\* loop continues with the next team
OnQueryError == NextTeam

\* mutant of OnBulkError: the exception of the bulk query leaves get_season_games
OnBulkError_Propagates == LeaveSeasonType([raised |-> TRUE, games |-> << >>])

\* lines 162-163: the handler of a failed bulk query logs; get_season_games goes
\* on to sort and return
OnBulkError == ReturnSeasonGames

\* lines 116-121, 145-149: the upstream call issued at this point
CurrentCall ==
    [ season_type |-> season_types[st_idx],
      team_id     |-> IF PerTeam(team_ids) THEN Some(team_ids[1][team_idx]) ELSE None ]

\* lines 116-122, 145-150: the upstream query raises
QueryFails ==
    /\ pc = "query"
    /\ calls' = Append(calls, CurrentCall)
    /\ some_failed' = TRUE
    /\ call_failed' = TRUE
    /\ delayed' = FALSE
    /\ IF PerTeam(team_ids) THEN OnQueryError ELSE OnBulkError
    /\ UNCHANGED <<f_args, shared, row_ids, all_failed, parseVars, eventVars, exportVars>>

\* lines 124-132, 152-160: the query returned a data frame; its next row is r
QueryRow ==
    \E r \in FetchRowPool :
        LET acc  == ProcessRow([games |-> games, seen_game_ids |-> seen_game_ids], r, f_args[1].season)
            id   == r.GAME_ID
            seen == id \in DOMAIN first_row
        IN /\ pc \in {"query", "rows"}
           /\ pc' = "rows"
           /\ calls' = IF pc = "query" THEN Append(calls, CurrentCall) ELSE calls
           /\ call_failed' = FALSE
           /\ all_failed' = FALSE
           /\ delayed' = FALSE
           /\ games' = acc.games
           /\ seen_game_ids' = acc.seen_game_ids
           /\ first_row' = IF seen THEN first_row
                           ELSE (id :> [row |-> r, team_idx |-> team_idx]) @@ first_row
           /\ shared' = (shared \/ (/\ seen
                                    /\ first_row[id].team_idx # team_idx
                                    /\ \E i \in 1..Len(games) : games[i].game_id = id))
           /\ row_ids' = IF parse_row(r, f_args[1].season) # None
                         THEN [row_ids EXCEPT !.ok = @ \cup {id}]
                         ELSE [row_ids EXCEPT !.bad = @ \cup {id}]
           /\ UNCHANGED <<f_args, st_idx, all_games, seen_ids, team_idx, some_failed, returned,
                          first_type, parseVars, eventVars, exportVars>>

\* the data frame is exhausted; in the per-team loop _delay() runs (line 134)
QueryEnd ==
    /\ pc \in {"query", "rows"}
    /\ calls' = IF pc = "query" THEN Append(calls, CurrentCall) ELSE calls
    /\ call_failed' = FALSE
    /\ all_failed' = FALSE
    /\ delayed' = PerTeam(team_ids)
    /\ NextTeam
    /\ UNCHANGED <<f_args, shared, row_ids, some_failed, parseVars, eventVars, exportVars>>

NextFetch == QueryFails \/ QueryRow \/ QueryEnd

SpecFetch == InitFetch /\ [][NextFetch]_vars

(***************************************************************************)
(* CalendarManager.generate_all: one tracked entity at a time              *)
(***************************************************************************)
GSW == <<"G","S","W">>

\* the games given to generate_all: two records of one game id (upcoming, and
\* completed with scores) between two teams of the Atlantic division, a game of
\* another id between two teams of the Pacific division, and a game of a third
\* id of an Atlantic team at a Pacific team
ExportGamePool ==
    LET east  == [date |-> DateTime(2024, 10, 22, 19, 30), home |-> BOS, away |-> NYK,
                  arena |-> None, season_type |-> "Regular Season"]
        west  == [date |-> DateTime(2024, 12, 25, 19, 30), home |-> GSW, away |-> LAL,
                  arena |-> None, season_type |-> "Regular Season"]
        cross == [date |-> DateTime(2024, 11, 5, 19, 30), home |-> LAL, away |-> BOS,
                  arena |-> None, season_type |-> "Regular Season"]
    IN { GameOf(GameId1, Season2024, FALSE, FALSE, east),
         GameOf(GameId1, Season2024, TRUE, TRUE, east),
         GameOf(GameId2, Season2024, FALSE, FALSE, west),
         GameOf(GameId3, Season2024, FALSE, FALSE, cross) }

MaxGames == 2

GameLists == UNION { [1..n -> ExportGamePool] : n \in 0..MaxGames }

\* the tracked selections: nothing; a team; a team in lower case; an unknown
\* team before a known one; a conference in lower case; an unknown conference
\* before a known one; a division; an unknown division before a known one; one
\* of each
Atlantis == <<"A","t","l","a","n","t","i","s">>
Mars     == <<"M","a","r","s">>

Tracked(t, c, d) == [tracked_teams |-> t, tracked_conferences |-> c, tracked_divisions |-> d]

TrackedPool ==
    { Tracked(<< >>, << >>, << >>),
      Tracked(<<BOS>>, << >>, << >>),
      Tracked(<<Lower(LAL)>>, << >>, << >>),
      Tracked(<<XYZ, BOS>>, << >>, << >>),
      Tracked(<< >>, <<Lower(East)>>, << >>),
      Tracked(<< >>, <<Atlantis, West>>, << >>),
      Tracked(<< >>, << >>, <<Pacific>>),
      Tracked(<< >>, << >>, <<Mars, Atlantic>>),
      Tracked(<<LAL>>, <<East>>, <<Atlantic>>) }

InitExport ==
    /\ pc = "export"
    /\ x_args \in { Some([ games |-> gs, tracked |-> t, reminder_minutes |-> 60 ]) :
                    gs \in GameLists, t \in TrackedPool }
    /\ x_idx = 1
    /\ generated = << >>
    /\ files = << >>
    /\ attempts = << >>
    /\ ParseIdle /\ EventIdle /\ FetchIdle

\* mutant of Entities: the combined calendar is made only when teams are tracked
Entities_CombinedIfTeams(a) ==
    LET t == a.tracked
        Of(kind, names) == [i \in 1..Len(names) |-> [kind |-> kind, name |-> names[i]]]
    IN Of("team", t.tracked_teams) \o Of("conference", t.tracked_conferences)
       \o Of("division", t.tracked_divisions)
       \o (IF Len(t.tracked_teams) > 0
           THEN << [kind |-> "combined", name |-> << >>] >> ELSE << >>)

\* the entities of the four blocks of generate_all, in the order it handles
\* them (lines 257, 267, 277, 287)
Entities(a) ==
    LET t == a.tracked
        Of(kind, names) == [i \in 1..Len(names) |-> [kind |-> kind, name |-> names[i]]]
    IN Of("team", t.tracked_teams) \o Of("conference", t.tracked_conferences)
       \o Of("division", t.tracked_divisions)
       \o (IF Len(t.tracked_teams) > 0 \/ Len(t.tracked_conferences) > 0 \/ Len(t.tracked_divisions) > 0
           THEN << [kind |-> "combined", name |-> << >>] >> ELSE << >>)

entities == Entities(x_args[1])

AtKind(kind) == pc = "export" /\ x_idx <= Len(entities) /\ entities[x_idx].kind = kind

\* one try block of generate_all: cal is what the generator returned (None: it
\* raised), and export_calendar ends as the file system decides; the except
\* clause logs and the loop goes on
TryExport(cal, filepath) ==
    \E outcome \in IoOutcomes :
        LET built == cal # None IN
        /\ built \/ outcome = "ok"
        /\ files' = IF built THEN export_calendar(files, cal[1], filepath, outcome) ELSE files
        /\ generated' = Generated(generated, filepath, built, outcome)
        /\ attempts' = Append(attempts, [ entity |-> entities[x_idx], filepath |-> filepath,
                                          built |-> built,
                                          outcome |-> IF built THEN outcome ELSE "not_exported" ])
        /\ x_idx' = x_idx + 1
        /\ pc' = IF x_idx = Len(entities) THEN "exported" ELSE "export"
        /\ UNCHANGED <<x_args, parseVars, eventVars, fetchVars>>

\* lines 257-264
GenerateTeam ==
    /\ AtKind("team")
    /\ TryExport(generate_team_calendar(x_args[1].games, entities[x_idx].name,
                                        x_args[1].reminder_minutes, 1),
                 IcsPath(entities[x_idx].name))

\* lines 267-274
GenerateConference ==
    /\ AtKind("conference")
    /\ TryExport(generate_conference_calendar(x_args[1].games, entities[x_idx].name,
                                              x_args[1].reminder_minutes, 1),
                 IcsPath(entities[x_idx].name))

\* lines 277-284
GenerateDivision ==
    /\ AtKind("division")
    /\ TryExport(generate_division_calendar(x_args[1].games, entities[x_idx].name,
                                            x_args[1].reminder_minutes, 1),
                 IcsPath(entities[x_idx].name))

\* lines 287-312
GenerateCombined ==
    /\ AtKind("combined")
    /\ TryExport(generate_combined_calendar(x_args[1].games, x_args[1].reminder_minutes, 1),
                 CombinedPath)

\* lines 254-314 with nothing tracked: no block runs, the empty list is returned
GenerateNothing ==
    /\ pc = "export"
    /\ Len(entities) = 0
    /\ pc' = "exported"
    /\ UNCHANGED <<exportVars, parseVars, eventVars, fetchVars>>

NextExport ==
    GenerateTeam \/ GenerateConference \/ GenerateDivision \/ GenerateCombined \/ GenerateNothing

SpecExport == InitExport /\ [][NextExport]_vars

(***************************************************************************)
(* Properties                                                              *)
(***************************************************************************)
Range(seq) == { seq[i] : i \in 1..Len(seq) }
GameIds(gs) == { g.game_id : g \in Range(gs) }
NoDupIds(gs) == \A i, j \in 1..Len(gs) : i # j => gs[i].game_id # gs[j].game_id

\* C1: no two games of the list that get_season_games builds, nor of the list
\* that get_full_season_schedule builds and returns, have the same game_id.
C1_UniqueGameIds == NoDupIds(games) /\ NoDupIds(all_games)

\* C1 happens: a fetch with a team filter returned, and a game that was in
\* `games` had been returned again by another team's query.
C1_SharedGameFetched ==
    pc = "fetched" /\ PerTeam(team_ids) /\ shared /\ Len(all_games) > 0

\* C2: when a fetch with a team filter has returned, every game id whose
\* returned rows all parse is in the result, whichever queries raised.
C2_TeamFailureIsolated ==
    (pc = "fetched" /\ PerTeam(team_ids))
        => (row_ids.ok \ row_ids.bad) \subseteq GameIds(all_games)

\* C2 happens: a fetch over several teams returned, a query of it raised and
\* another returned a game whose rows parse.
C2_FailedAndReturned ==
    /\ pc = "fetched" /\ PerTeam(team_ids) /\ Len(team_ids[1]) >= 2
    /\ some_failed
    /\ (row_ids.ok \ row_ids.bad) # {}

\* whether a tracked name resolves in the team directory
Resolves(entity) ==
    IF entity.kind = "team" THEN get_team_by_abbrev(entity.name) # None
    ELSE IF entity.kind = "conference" THEN get_teams_by_conference(entity.name) # {}
    ELSE IF entity.kind = "division" THEN get_teams_by_division(entity.name) # {}
    ELSE TRUE

\* C3: a tracked team, conference or division that does not resolve in the
\* team directory gets no file, and its path is not in the returned list.
C3_UnknownEntitySkipped ==
    \A i \in 1..Len(attempts) :
        ~Resolves(attempts[i].entity)
            => /\ attempts[i].filepath \notin DOMAIN files
               /\ attempts[i].filepath \notin Range(generated)

\* C4: an entity whose build or export failed has no file at its location.
C4_FailedExportLeavesNoFile ==
    \A i \in 1..Len(attempts) :
        attempts[i].outcome # "ok" => attempts[i].filepath \notin DOMAIN files

RECURSIVE OkPaths(_)
OkPaths(as) ==
    IF Len(as) = 0 THEN << >>
    ELSE (IF as[1].built /\ as[1].outcome = "ok" THEN <<as[1].filepath>> ELSE << >>)
         \o OkPaths(Tail(as))

KindRank(kind) ==
    IF kind = "team" THEN 1 ELSE IF kind = "conference" THEN 2
    ELSE IF kind = "division" THEN 3 ELSE 4

\* C5: generate_all handles every entity in the order teams, conferences,
\* divisions, combined, whatever failed before; the list it builds holds, in that
\* order, exactly the locations of the entities whose calendar was built and
\* whose export completed; each of these files is complete.
C5_GeneratedIsTheWrittenLocations ==
    /\ Len(attempts) = x_idx - 1
    /\ pc = "exported" => Len(attempts) = Len(entities)
    /\ \A i \in 1..Len(attempts) : attempts[i].entity = entities[i]
    /\ \A i, j \in 1..Len(attempts) :
           i < j => KindRank(attempts[i].entity.kind) <= KindRank(attempts[j].entity.kind)
    /\ generated = OkPaths(attempts)
    /\ \A i \in 1..Len(generated) :
           generated[i] \in DOMAIN files /\ files[generated[i]].bytes = "complete"

\* C5 happens: generate_all returned after an entity failed and a later one
\* was exported.
C5_FailureThenSuccess ==
    /\ pc = "exported"
    /\ \E i, j \in 1..Len(attempts) :
           i < j /\ attempts[i].outcome # "ok" /\ attempts[j].outcome = "ok"
    /\ Len(generated) >= 1

\* C6: the combined calendar that generate_all wrote has as many events as the
\* games given have distinct game ids.
C6_CombinedOneEventPerGameId ==
    (CombinedPath \in DOMAIN files /\ files[CombinedPath].bytes = "complete")
        => Len(files[CombinedPath].cal.events) = Cardinality(GameIds(x_args[1].games))

\* C6 happens: the combined calendar was written from games that repeat an id.
C6_CombinedOfRepeatedId ==
    /\ CombinedPath \in DOMAIN files /\ files[CombinedPath].bytes = "complete"
    /\ Len(x_args[1].games) > Cardinality(GameIds(x_args[1].games))
    /\ Len(files[CombinedPath].cal.events) >= 1

\* C7: the events of two games of equal season and game_id have the same
\* identifier, whatever the other fields and the reminder are.
C7_UidFromSeasonAndGameId ==
    (/\ pc = "created"
     /\ ev_args[1].game.season = ev_args[2].game.season
     /\ ev_args[1].game.game_id = ev_args[2].game.game_id)
        => events[1].uid = events[2].uid

\* C7 happens: two events were built from games of one season and game_id that
\* differ in completion, scores, date and teams, with different reminders.
C7_SameGameOtherFields ==
    /\ pc = "created"
    /\ ev_args[1].game.season = ev_args[2].game.season
    /\ ev_args[1].game.game_id = ev_args[2].game.game_id
    /\ ev_args[1].game.completed # ev_args[2].game.completed
    /\ ev_args[1].game.home_score # ev_args[2].game.home_score
    /\ ev_args[1].game.game_date # ev_args[2].game.game_date
    /\ ev_args[1].game.home_team # ev_args[2].game.home_team
    /\ ev_args[1].reminder_minutes # ev_args[2].reminder_minutes

\* C8: an event has a reminder exactly when its game is not completed and the
\* lead time is positive; it then has one, triggering the lead time before the
\* start (60 minutes before, for a lead time of 60).
C8_ReminderGating ==
    pc = "created" =>
        \A i \in 1..2 :
            LET g == ev_args[i].game
                r == ev_args[i].reminder_minutes
                e == events[i]
            IN /\ (Len(e.alarms) > 0) <=> (~g.completed /\ r > 0)
               /\ Len(e.alarms) <= 1
               /\ \A k \in 1..Len(e.alarms) : e.alarms[k].trigger = 0 - r
               /\ (~g.completed /\ r = 60)
                      => (Len(e.alarms) = 1 /\ e.alarms[1].trigger = 0 - 60)

\* C8 happens: with a lead time of 60, an upcoming game got its reminder and a
\* completed game got none.
C8_UpcomingAndCompleted ==
    /\ pc = "created"
    /\ ~ev_args[1].game.completed /\ ev_args[1].reminder_minutes = 60
    /\ Len(events[1].alarms) = 1
    /\ ev_args[2].game.completed /\ ev_args[2].reminder_minutes = 60
    /\ Len(events[2].alarms) = 0

\* C9: the Game of a completed row that carries points has both scores, and the
\* Game of a row that is not completed has none.
C9_ScoresOfCompletedGame ==
    (pc = "parsed" /\ parsed # None) =>
        /\ (parsed[1].completed /\ row[1].PTS # None)
               => (parsed[1].home_score # None /\ parsed[1].away_score # None)
        /\ ~parsed[1].completed
               => (parsed[1].home_score = None /\ parsed[1].away_score = None)

AbbrevPool == {BOS, NYK, LAL, XYZ}
InDirectory(abbrev) == \E t \in NBA_TEAMS : t.abbrev = abbrev

\* C10: every row met in get_season_games was handled; the Game of a row
\* "X @ Y" has away X and home Y, the Game of a row "X vs. Y" has home X and
\* away Y, and a row without separator or with a side that the directory does
\* not know has no Game in the list.
C10_MatchupParsing ==
    /\ seen_game_ids = DOMAIN first_row
    /\ \A id \in DOMAIN first_row :
           LET r  == first_row[id].row
               gs == { g \in Range(games) : g.game_id = id }
           IN /\ \A X, Y \in AbbrevPool :
                     /\ r.MATCHUP = X \o AT \o Y =>
                            IF InDirectory(X) /\ InDirectory(Y)
                            THEN gs # {} /\ \A g \in gs : g.away_team = X /\ g.home_team = Y
                            ELSE gs = {}
                     /\ r.MATCHUP = X \o VS \o Y =>
                            IF InDirectory(X) /\ InDirectory(Y)
                            THEN gs # {} /\ \A g \in gs : g.home_team = X /\ g.away_team = Y
                            ELSE gs = {}
              /\ (~Contains(r.MATCHUP, AT) /\ ~Contains(r.MATCHUP, VS)) => gs = {}

\* C10 happens: in one get_season_games call a row without separator was
\* dropped and a row "LAL @ BOS" gave the game of LAL at BOS.
C10_DroppedAndParsed ==
    /\ GameId1 \in DOMAIN first_row
    /\ ~Contains(first_row[GameId1].row.MATCHUP, VS)
    /\ GameId1 \notin GameIds(games)
    /\ GameId2 \in DOMAIN first_row
    /\ first_row[GameId2].row.MATCHUP = LAL \o AT \o BOS
    /\ \E g \in Range(games) : g.game_id = GameId2 /\ g.away_team = LAL /\ g.home_team = BOS

\* adjacent games are in ascending order of game_date
SortedByDate(gs) ==
    \A i \in 1..(Len(gs) - 1) : DateLeq(gs[i].game_date, gs[i + 1].game_date)

\* C11: the list that get_season_games returns and the list that
\* get_full_season_schedule returns are sorted ascending by game_date, for every
\* team filter and every order of the upstream rows.
C11_FetchSortedByDate ==
    /\ (returned # None /\ ~returned[1].raised) => SortedByDate(returned[1].games)
    /\ pc = "fetched" => SortedByDate(all_games)

\* C11 happens: a fetch returned two games of different dates, the earlier of
\* which was merged after the later one (it came with a later season type), and
\* its last get_season_games call returned two games.
C11_LaterMergedEarlier ==
    /\ pc = "fetched"
    /\ Len(all_games) = 2
    /\ DateLess(all_games[1].game_date, all_games[2].game_date)
    /\ all_games[1].season_type = "Playoffs"
    /\ all_games[2].season_type = "Regular Season"
    /\ Len(returned[1].games) = 2

\* C12: without a team filter, a get_season_games call whose upstream query
\* raised returns the empty list and does not raise, and a
\* get_full_season_schedule call all of whose queries raised returns the empty
\* list.
C12_BulkFailureGivesEmpty ==
    /\ (/\ ~PerTeam(team_ids) /\ pc \in {"query", "fetched"}
        /\ returned # None /\ call_failed)
           => (~returned[1].raised /\ returned[1].games = << >>)
    /\ (~PerTeam(team_ids) /\ pc = "fetched" /\ all_failed) => all_games = << >>

\* C12 happens: a fetch without team filter returned after the bulk query of
\* each of its season types raised.
C12_EveryBulkCallFailed ==
    /\ pc = "fetched" /\ ~PerTeam(team_ids)
    /\ Len(calls) >= 2 /\ all_failed /\ call_failed
    /\ returned = Some([raised |-> FALSE, games |-> << >>])
    /\ all_games = << >>

\* the calendars that generate_all wrote: the attempts of the given kinds whose
\* export completed (no two attempts of a run have the same location)
Written(kinds) ==
    { i \in 1..Len(attempts) :
        /\ attempts[i].entity.kind \in kinds
        /\ attempts[i].outcome = "ok"
        /\ \A j \in 1..Len(attempts) : j # i => attempts[j].filepath # attempts[i].filepath }

EventsOf(i) == files[attempts[i].filepath].cal.events

\* the abbreviations of the teams that the directory puts in the conference or
\* the division of the entity
MembersOf(entity) ==
    { t.abbrev : t \in IF entity.kind = "conference"
                       THEN get_teams_by_conference(entity.name)
                       ELSE get_teams_by_division(entity.name) }

\* C13: a conference (division) calendar has an event of a game of the input
\* exactly when the game's home team or its away team is in the conference
\* (division).
C13_ConferenceFilter ==
    \A i \in Written({"conference", "division"}) :
        \A g \in Range(x_args[1].games) :
            (\E e \in Range(EventsOf(i)) : e.uid = EventUid(g))
                <=> (g.home_team \in MembersOf(attempts[i].entity)
                     \/ g.away_team \in MembersOf(attempts[i].entity))

\* C13 happens: the calendar of the East was written from a game whose away
\* team alone is Eastern and a game between two Western teams; it holds the
\* first and not the second.
C13_OnlyAwayIsEastern ==
    \E i \in Written({"conference"}) :
        /\ Capitalize(attempts[i].entity.name) = East
        /\ \E g, h \in Range(x_args[1].games) :
               /\ g.away_team = BOS /\ g.home_team = LAL
               /\ h.away_team = LAL /\ h.home_team = GSW
               /\ \E e \in Range(EventsOf(i)) : e.uid = EventUid(g)
               /\ \A e \in Range(EventsOf(i)) : e.uid # EventUid(h)

\* C14: a combined, conference or division calendar never has more events than
\* the games given have distinct game ids.
C14_EventCountBounded ==
    \A i \in Written({"combined", "conference", "division"}) :
        Len(EventsOf(i)) <= Cardinality(GameIds(x_args[1].games))

\* C14 happens: from games that repeat a game id between two Eastern teams, the
\* calendar of the East and the combined calendar were written with fewer
\* events than games given.
C14_RepeatedIdBothTeamsMatch ==
    /\ Len(x_args[1].games) > Cardinality(GameIds(x_args[1].games))
    /\ \E g \in Range(x_args[1].games) : g.home_team = BOS /\ g.away_team = NYK
    /\ \E i \in Written({"conference"}), j \in Written({"combined"}) :
           /\ Capitalize(attempts[i].entity.name) = East
           /\ Len(EventsOf(i)) >= 1 /\ Len(EventsOf(i)) < Len(x_args[1].games)
           /\ Len(EventsOf(j)) >= 1 /\ Len(EventsOf(j)) < Len(x_args[1].games)

\* some tracked list of the call is not empty
TracksAnything ==
    LET t == x_args[1].tracked
    IN t.tracked_teams # << >> \/ t.tracked_conferences # << >> \/ t.tracked_divisions # << >>

CombinedAttempts ==
    { i \in 1..Len(attempts) : attempts[i].entity.kind = "combined" }

\* C15: when generate_all has returned, it has built the combined calendar and
\* exported it to nba_schedule.ics, once and last, exactly when one of the three
\* tracked lists is not empty; with the three lists empty it has written no file
\* and returns the empty list.
C15_CombinedIffTracking ==
    pc = "exported" =>
        /\ TracksAnything <=> CombinedAttempts # {}
        /\ \A i \in CombinedAttempts :
               /\ i = Len(attempts)
               /\ attempts[i].built
               /\ attempts[i].filepath = CombinedPath
               /\ attempts[i].outcome = "ok" <=> CombinedPath \in Range(generated)
        /\ ~TracksAnything => (attempts = << >> /\ files = << >> /\ generated = << >>)

\* C15 happens: generate_all returned with only a conference tracked and the
\* combined calendar written.
C15_OnlyConferenceTracked ==
    /\ pc = "exported"
    /\ x_args[1].tracked.tracked_teams = << >>
    /\ x_args[1].tracked.tracked_conferences # << >>
    /\ x_args[1].tracked.tracked_divisions = << >>
    /\ CombinedPath \in DOMAIN files /\ files[CombinedPath].bytes = "complete"
    /\ generated[Len(generated)] = CombinedPath

\* the team of the abbreviation is the home team or the away team of the game,
\* letter case set aside
TeamPlays(abbrev, g) ==
    Upper(abbrev) = Upper(g.home_team) \/ Upper(abbrev) = Upper(g.away_team)

\* C16: the calendar of a known team has the event of a game of the input
\* exactly when the team is the game's home team or away team, the abbreviation
\* being given in any letter case; it has one event per such game of the input
\* and no other event.
C16_TeamFilter ==
    \A i \in Written({"team"}) :
        LET abbrev == attempts[i].entity.name
            gs     == x_args[1].games
            EventOf(g) == create_game_event(g, x_args[1].reminder_minutes, 1)
        IN /\ \A g \in Range(gs) : EventOf(g) \in Range(EventsOf(i)) <=> TeamPlays(abbrev, g)
           /\ \A e \in Range(EventsOf(i)) :
                  \E g \in Range(gs) : e = EventOf(g) /\ TeamPlays(abbrev, g)
           /\ Len(EventsOf(i)) = Cardinality({ k \in 1..Len(gs) : TeamPlays(abbrev, gs[k]) })

\* C16 happens: the calendar of "lal" was written from a game that LAL plays
\* and a game that it does not play; it has the event of the first only.
C16_LowerCaseAbbreviation ==
    \E i \in Written({"team"}) :
        /\ attempts[i].entity.name = Lower(LAL)
        /\ Len(x_args[1].games) = 2
        /\ \E g \in Range(x_args[1].games) : TeamPlays(LAL, g)
        /\ \E g \in Range(x_args[1].games) : ~TeamPlays(LAL, g)
        /\ Len(EventsOf(i)) = 1

\* "AWAY @ HOME", and the same with the score after each abbreviation
PlainTitle(g) == g.away_team \o <<" ","@"," ">> \o g.home_team

TitleHasScores(e, g) ==
    /\ g.home_score # None /\ g.away_score # None
    /\ e.summary = g.away_team \o <<" ">> \o IntStr(g.away_score[1]) \o <<" ","@"," ">>
                   \o g.home_team \o <<" ">> \o IntStr(g.home_score[1])

\* C17 as stated: the title of the event of a completed game is "AWAY @ HOME"
\* with the scores, and the title of the event of a game that is not completed
\* is "AWAY @ HOME".
C17_TitleScoresWhenCompleted ==
    pc = "created" =>
        \A i \in 1..2 :
            IF ev_args[i].game.completed
            THEN TitleHasScores(events[i], ev_args[i].game)
            ELSE events[i].summary = PlainTitle(ev_args[i].game)

\* C17, amended: the title is "AWAY @ HOME" with the scores when the game is
\* completed and has both its scores, and "AWAY @ HOME" otherwise: for a game
\* that is not completed (even if it has scores) and for a completed game that
\* lacks a score.
C17_TitleScoresWhenCompletedAndScored ==
    pc = "created" =>
        \A i \in 1..2 :
            LET g == ev_args[i].game IN
            IF g.completed /\ g.home_score # None /\ g.away_score # None
            THEN TitleHasScores(events[i], g)
            ELSE events[i].summary = PlainTitle(g)

\* C17 happens: the events of a completed game with both scores, whose title
\* has them, and of a completed game with the home score alone, whose title is
\* plain, were built.
C17_CompletedWithAndWithoutScores ==
    /\ pc = "created"
    /\ ev_args[1].game.completed /\ TitleHasScores(events[1], ev_args[1].game)
    /\ ev_args[2].game.completed
    /\ ev_args[2].game.home_score # None /\ ev_args[2].game.away_score = None
    /\ events[2].summary = PlainTitle(ev_args[2].game)

\* the year, month and day that a date text "Y-M-D" names
DateFields(text) ==
    LET parts == Split(text, <<"-">>)
    IN [year |-> DigitsValue(parts[1]), month |-> DigitsValue(parts[2]), day |-> DigitsValue(parts[3])]

\* C18: the Game of a row has the year, month and day of the row's date text
\* and the time 19:30; the Game of a row dated "2024-12-25" has the game_date
\* 2024-12-25T19:30.
C18_DateFallback ==
    (pc = "parsed" /\ parsed # None) =>
        LET d == parsed[1].game_date
            f == DateFields(row[1].GAME_DATE)
        IN /\ d.hour = 19 /\ d.minute = 30
           /\ d.year = f.year /\ d.month = f.month /\ d.day = f.day
           /\ row[1].GAME_DATE = Date1225 => d = DateTime(2024, 12, 25, 19, 30)

\* C18 happens: a row dated "2024-12-25" was parsed into a Game.
C18_ChristmasGame ==
    /\ pc = "parsed" /\ parsed # None
    /\ row[1].GAME_DATE = <<"2","0","2","4","-","1","2","-","2","5">>
    /\ parsed[1].game_date = DateTime(2024, 12, 25, 19, 30)

\* C19: in a fetch with a team filter, every upstream call but the first is
\* issued after _delay() has run since the previous upstream call, whether that
\* call returned or raised.
C19_DelayBetweenTeamCalls ==
    [][ (PerTeam(team_ids) /\ Len(calls) >= 1 /\ Len(calls') = Len(calls) + 1) => delayed ]_vars

\* the season types asked for, in the order Pre Season, Regular Season, Playoffs
RequestedTypes ==
    SelectSeq(<<"Pre Season", "Regular Season", "Playoffs">>,
              LAMBDA t : \/ t = "Regular Season"
                         \/ (t = "Pre Season" /\ f_args[1].include_preseason)
                         \/ (t = "Playoffs" /\ f_args[1].include_playoffs))

\* the calls due for one season type: one without team when there is no team
\* filter (None or the empty list), else one per team in the order of the filter
CallsDue(t) ==
    IF team_ids = None \/ team_ids = Some(<< >>)
    THEN << [season_type |-> t, team_id |-> None] >>
    ELSE [k \in 1..Len(team_ids[1]) |-> [season_type |-> t, team_id |-> Some(team_ids[1][k])]]

RECURSIVE AllCallsDue(_)
AllCallsDue(types) ==
    IF Len(types) = 0 THEN << >> ELSE CallsDue(types[1]) \o AllCallsDue(Tail(types))

\* C20: the upstream calls of a fetch are, in this order, one per requested
\* season type (Pre Season, Regular Season, Playoffs) without a team filter, and
\* one per season type and team of the filter, teams in filter order, with one;
\* a call is issued once, whether it returns or raises.
C20_OneCallPerTypeAndTeam ==
    LET due == AllCallsDue(RequestedTypes)
    IN /\ Len(calls) <= Len(due)
       /\ calls = SubSeq(due, 1, Len(calls))
       /\ pc = "fetched" => calls = due

\* C20 happens: a fetch of the three season types over two teams returned after
\* six calls, one of which raised.
C20_SixCallsOneFailed ==
    /\ pc = "fetched"
    /\ PerTeam(team_ids) /\ Len(team_ids[1]) = 2
    /\ f_args[1].include_preseason /\ f_args[1].include_playoffs
    /\ some_failed /\ ~all_failed
    /\ Len(calls) = 6

\* C21: within a get_season_games call, every game id met is marked as seen,
\* and the games of that id in the list are the Game of the first row that
\* carried it, alone, or none when that row gives no Game, whatever the later
\* rows of the id are.
C21_FirstRowDecides ==
    /\ GameIds(games) \subseteq DOMAIN first_row
    /\ \A id \in DOMAIN first_row :
           LET first == _parse_game_row(first_row[id].row, f_args[1].season)
               of_id == SelectSeq(games, LAMBDA g : g.game_id = id)
           IN /\ id \in seen_game_ids
              /\ of_id = IF first = None THEN << >> ELSE <<first[1]>>

\* C21 happens: in the first get_season_games call of a fetch, the first row of
\* a game id gave no Game, a later row of the id that parses was returned, and
\* the list has no game of the id.
C21_LaterRowWouldParse ==
    /\ st_idx = 1 /\ pc = "rows"
    /\ GameId1 \in DOMAIN first_row
    /\ _parse_game_row(first_row[GameId1].row, f_args[1].season) = None
    /\ GameId1 \in row_ids.ok
    /\ GameId1 \notin GameIds(games)

\* C22: a Game that _parse_game_row built has at most one of home_score and
\* away_score, which is the row's PTS: home_score when the row's team is the
\* home side of the matchup, away_score otherwise; its score_display is empty,
\* and the title and the description of its event carry no score, completed or
\* not.
C22_AtMostOneScore ==
    (pc = "parsed" /\ parsed # None) =>
        LET g == parsed[1]
            e == create_game_event(g, 60, 1)
        IN /\ g.home_score = None \/ g.away_score = None
           /\ g.home_score # None
                  => (row[1].TEAM_ABBREVIATION = g.home_team /\ g.home_score = row[1].PTS)
           /\ g.away_score # None
                  => (row[1].TEAM_ABBREVIATION # g.home_team /\ g.away_score = row[1].PTS)
           /\ score_display(g) = << >>
           /\ e.summary = PlainTitle(g)
           /\ \A k \in 1..Len(e.description) : e.description[k].line # "Final"

\* C22 happens: the row of the home team of a completed game, with its points,
\* was parsed into a Game with the home score alone.
C22_CompletedHomeRow ==
    /\ pc = "parsed" /\ parsed # None
    /\ parsed[1].completed
    /\ row[1].MATCHUP = BOS \o VS \o NYK /\ row[1].TEAM_ABBREVIATION = BOS
    /\ parsed[1].home_score = Some(110) /\ parsed[1].away_score = None
    /\ create_game_event(parsed[1], 60, 1).summary = NYK \o AT \o BOS

\* C23: every game of the list that get_full_season_schedule builds and returns
\* has as season_type the label of the first requested season type, in the order
\* Pre Season, Regular Season, Playoffs, whose get_season_games result had its
\* game_id, whatever season_type the row gave; it is never "Play-In".
C23_SeasonTypeOfFirstSubQuery ==
    \A i \in 1..Len(all_games) :
        LET g == all_games[i]
        IN /\ g.game_id \in DOMAIN first_type
           /\ g.season_type = first_type[g.game_id]
           /\ \E k \in 1..Len(RequestedTypes) :
                  /\ RequestedTypes[k] = g.season_type
                  /\ k <= st_idx
           /\ g.season_type # "Play-In"

\* C23 happens: a fetch returned a game that its last get_season_games call
\* gave with the season_type "Play-In" of its row, and that has the label of an
\* earlier season type.
C23_PlayInRowRelabelled ==
    /\ pc = "fetched"
    /\ \E k \in 1..Len(returned[1].games), i \in 1..Len(all_games) :
           /\ returned[1].games[k].season_type = "Play-In"
           /\ all_games[i].game_id = returned[1].games[k].game_id
           /\ all_games[i].season_type = "Regular Season"
           /\ season_types[st_idx] = "Playoffs"

====
